---- MODULE Spec2Model ----
(***************************************************************************)
(* A model of hs_smartfridge.py: the Item decay model, the SmartFridge     *)
(* inventory (put / exit / daily_update) and its display view.             *)
(*                                                                         *)
(* The cabinet is a Python list of object references.  put() stores the    *)
(* SAME Item object item_quantity times, so the model keeps a heap of Item *)
(* objects and a cabinet of references into it.  _item_counter is a Python *)
(* dict; it is kept as the sequence of its entries in insertion order,     *)
(* which is the order daily_update iterates it in.                         *)
(***************************************************************************)
EXTENDS Integers, Sequences, FiniteSets, TLC

\* ------------------------------------------------------------------ bounds
\* SmartFridge(capacity): the capacity the fridge is constructed with.
Capacity == 3
\* The largest item_quantity a caller passes to put / exit.
MaxQty == 3
\* The number of calls made on the fridge.
MaxOps == 4
\* The most negative item_quantity a caller passes is -MaxNegQty.
MaxNegQty == 1
\* An Item is constructed with a freshness in -MaxNegFreshness..MaxFreshness
\* and a daily_spoil in 0..MaxSpoil.
MaxNegFreshness == 2
MaxFreshness == 7
MaxSpoil == 3

\* ------------------------------------------------------- program constants
\* SmartFridge.__init__: freshness_threshold: int = 2
freshness_threshold == 2
\* get_item: "just assume unknown item is non-perishable": freshness = 1
default_freshness == 1
\* get_item: daily_spoil = 0 for a name that is not in DailySpoil
default_daily_spoil == 0

\* The item names the callers use.
Names == {"apple", "chicken", "waterbottle"}
\* sorted(Names): Python's ascending order of these strings.
SortedNames == <<"apple", "chicken", "waterbottle">>
\* The quantities the callers pass.
Quantities == 0..MaxQty
\* The quantities a caller that does not keep to counts passes.
SignedQuantities == (0 - MaxNegQty)..MaxQty

\* class Freshness(Enum)
Freshness == [chicken |-> 9, apple |-> 14]
\* class DailySpoil(Enum)
DailySpoil == [chicken |-> 3, apple |-> 2, waterbottle |-> 0]

\* --------------------------------------------------------------------- Item
\* get_item(name): Item(name, freshness, daily_spoil) from the two tables.
get_item(name) ==
    [name |-> name,
     freshness |-> IF name \in DOMAIN Freshness THEN Freshness[name]
                   ELSE default_freshness,
     daily_spoil |-> IF name \in DOMAIN DailySpoil THEN DailySpoil[name]
                     ELSE default_daily_spoil]

\* Item.non_perishable
non_perishable(item) == item.daily_spoil = 0

\* Item.freshness (the property): -1 for a non-perishable item.
freshness_of(item) == IF item.daily_spoil = 0 THEN -1 ELSE item.freshness

\* Mutant of spoil: the floor at 0 is missing.
spoil_no_floor(item) ==
    IF item.daily_spoil = 0 THEN item
    ELSE [item EXCEPT !.freshness = item.freshness - item.daily_spoil]

\* Item.spoil: the item after the call (unchanged when non-perishable).
spoil(item) ==
    IF item.daily_spoil = 0 THEN item
    ELSE [item EXCEPT !.freshness =
             IF item.freshness > item.daily_spoil
             THEN item.freshness - item.daily_spoil ELSE 0]

\* Mutant of spoil_return: the non-perishable test is missing.
spoil_return_unguarded(item) == spoil(item).freshness

\* Item.spoil: the value the call returns.
spoil_return(item) ==
    IF item.daily_spoil = 0 THEN -1 ELSE spoil(item).freshness

\* Item.as_dict
item_as_dict(item) ==
    IF non_perishable(item)
    THEN [name |-> item.name, non_perishable |-> TRUE]
    ELSE [name |-> item.name, freshness |-> item.freshness,
          daily_spoil |-> item.daily_spoil]

\* --------------------------------------------------------------------- heap
\* Object identities.  At most Capacity objects are referenced at a time.
ObjIds == 1..Capacity
\* A heap slot no object lives in.
NoItem == [name |-> "", freshness |-> 0, daily_spoil |-> 0]
EmptyHeap == [o \in ObjIds |-> NoItem]

\* The references held by a cabinet.
Refs(cab) == {cab[i] : i \in 1..Len(cab)}

\* The identity of a newly constructed object: one no live object has.
NewObj(cab) == CHOOSE o \in ObjIds : o \notin Refs(cab) /\
                   \A p \in ObjIds : p \notin Refs(cab) => o <= p

\* Reference counting: an object no cabinet slot refers to is freed.
Collect(cab, h) == [o \in ObjIds |-> IF o \in Refs(cab) THEN h[o] ELSE NoItem]

\* The units of the cabinet by value, in storage order.
Units(cab, h) == [i \in 1..Len(cab) |-> h[cab[i]]]

\* The names of the units of the cabinet, in storage order.
UnitNames(cab, h) == [i \in 1..Len(cab) |-> h[cab[i]].name]

\* ------------------------------------------------------------ _item_counter
\* name in self._item_counter
Has(ctr, name) == \E i \in 1..Len(ctr) : ctr[i].name = name

\* self._item_counter.keys()
Keys(ctr) == {ctr[i].name : i \in 1..Len(ctr)}

\* self._item_counter.get(name, default)
Get(ctr, name, default) ==
    IF Has(ctr, name)
    THEN ctr[CHOOSE i \in 1..Len(ctr) : ctr[i].name = name].count
    ELSE default

\* self._item_counter[name] = count: in place, or a new last entry.
Set(ctr, name, count) ==
    IF Has(ctr, name)
    THEN [i \in 1..Len(ctr) |->
             IF ctr[i].name = name THEN [name |-> name, count |-> count]
             ELSE ctr[i]]
    ELSE Append(ctr, [name |-> name, count |-> count])

\* self._item_counter.pop(name) of the entry at position i.
PopAt(ctr, i) == SubSeq(ctr, 1, i - 1) \o SubSeq(ctr, i + 1, Len(ctr))

\* ------------------------------------------------------------ notifications
\* MESSAGE_ITEM_ZERO_STOCK.format(item_name=...)
ZeroStock(name) == [message |-> "zero_stock", item_name |-> name]

\* MESSAGE_ITEM_SPOILED.format(item_name=..., item_count=...)
Spoiled(name, count) ==
    [message |-> "spoiled", item_name |-> name, item_count |-> count]

\* The outcome of a call: the fridge after it, what it passed to
\* cron_runner.notify, and "ok" or the exception it raised.
Outcome(cab, h, ctr, notified, res) ==
    [cabinet |-> cab, heap |-> h, item_counter |-> ctr,
     notified |-> notified, result |-> res]

\* ---------------------------------------------------------------------- put
\* Mutant of put_refused: the test forgets the units already stored.
put_refused_ignores_fill(cab, item_quantity) == item_quantity > Capacity

\* Mutant of put_refused: the test also refuses a quantity that exactly fits.
put_refused_exact_fit(cab, item_quantity) ==
    item_quantity >= Capacity - Len(cab)

\* put: the capacity test.
put_refused(cab, item_quantity) == item_quantity > Capacity - Len(cab)

\* [get_item(item_name)] * item_quantity: one object, item_quantity references
\* (none for a quantity <= 0).
put_extend(cab, obj, item_quantity) ==
    cab \o [i \in 1..item_quantity |-> obj]

\* Mutant of put_counter: the count is overwritten, not added to.
put_counter_overwrite(ctr, item_name, item_quantity) ==
    Set(ctr, item_name, item_quantity)

\* put: the new counter.
put_counter(ctr, item_name, item_quantity) ==
    Set(ctr, item_name, Get(ctr, item_name, 0) + item_quantity)

\* SmartFridge.put
put_result(cab, h, ctr, item_name, item_quantity) ==
    IF put_refused(cab, item_quantity)
    THEN Outcome(cab, h, ctr, <<>>, "RuntimeError")
    ELSE LET obj == IF item_quantity > 0 THEN NewObj(cab) ELSE 0
             new_cab == put_extend(cab, obj, item_quantity)
             new_heap == IF item_quantity > 0
                         THEN [h EXCEPT ![obj] = get_item(item_name)]
                         ELSE h
         IN  Outcome(new_cab, new_heap,
                     put_counter(ctr, item_name, item_quantity),
                     <<>>, "ok")

\* --------------------------------------------------------------------- exit
\* exit: the while loop; the state (idx, _new_cab) it ends in.  idx is the
\* Python index, the list's first element being index 0.
RECURSIVE exit_loop(_, _, _, _, _, _, _)
exit_loop(cab, h, item_name, item_quantity, idx, item_exited, new_cab) ==
    IF idx < Len(cab) /\ item_exited < item_quantity
    THEN IF h[cab[idx + 1]].name # item_name
         THEN exit_loop(cab, h, item_name, item_quantity, idx + 1,
                        item_exited, Append(new_cab, cab[idx + 1]))
         ELSE exit_loop(cab, h, item_name, item_quantity, idx + 1,
                        item_exited + 1, new_cab)
    ELSE [idx |-> idx, new_cab |-> new_cab]

\* exit: if idx < len(self._cabinet) - 1: _new_cab.extend(self._cabinet[idx:])
exit_tail(cab, idx, new_cab) ==
    IF idx < Len(cab) - 1
    THEN new_cab \o SubSeq(cab, idx + 1, Len(cab))
    ELSE new_cab

\* exit: the new counter.
exit_counter(ctr, item_name, item_quantity) ==
    Set(ctr, item_name, Get(ctr, item_name, 0) - item_quantity)

\* Mutant of exit_notify: the test of the count is missing.
exit_notify_always(ctr, item_name) == <<ZeroStock(item_name)>>

\* exit: the notification of a count that reached 0.
exit_notify(ctr, item_name) ==
    IF Get(ctr, item_name, 0) = 0 THEN <<ZeroStock(item_name)>> ELSE <<>>

\* Mutant of exit_insufficient: a quantity equal to the count is refused too.
exit_insufficient_at_count(ctr, item_name, item_quantity) ==
    item_quantity >= Get(ctr, item_name, 0)

\* exit: the stock test.
exit_insufficient(ctr, item_name, item_quantity) ==
    item_quantity > Get(ctr, item_name, 0)

\* Mutant of exit_result: the stock test runs after the cabinet is rebuilt.
exit_result_late_test(cab, h, ctr, item_name, item_quantity) ==
    IF ~Has(ctr, item_name)
    THEN Outcome(cab, h, ctr, <<>>, "KeyError")
    ELSE LET l == exit_loop(cab, h, item_name, item_quantity, 0, 0, <<>>)
             new_cab == exit_tail(cab, l.idx, l.new_cab)
             new_ctr == exit_counter(ctr, item_name, item_quantity)
         IN  IF exit_insufficient(ctr, item_name, item_quantity)
             THEN Outcome(new_cab, Collect(new_cab, h), ctr, <<>>,
                          "ValueError")
             ELSE Outcome(new_cab, Collect(new_cab, h), new_ctr,
                          exit_notify(new_ctr, item_name), "ok")

\* SmartFridge.exit
exit_result(cab, h, ctr, item_name, item_quantity) ==
    IF ~Has(ctr, item_name)
    THEN Outcome(cab, h, ctr, <<>>, "KeyError")
    ELSE IF exit_insufficient(ctr, item_name, item_quantity)
    THEN Outcome(cab, h, ctr, <<>>, "ValueError")
    ELSE LET l == exit_loop(cab, h, item_name, item_quantity, 0, 0, <<>>)
             new_cab == exit_tail(cab, l.idx, l.new_cab)
             new_ctr == exit_counter(ctr, item_name, item_quantity)
         IN  Outcome(new_cab, Collect(new_cab, h), new_ctr,
                     exit_notify(new_ctr, item_name), "ok")

\* ------------------------------------------------------------- daily_update
\* Mutant of prune: the test is item_count <= 1.
prune_low(ctr) ==
    IF \E i \in 1..Len(ctr) : ctr[i].count <= 1
    THEN LET i == CHOOSE j \in 1..Len(ctr) : ctr[j].count <= 1 /\
                      \A k \in 1..(j - 1) : ctr[k].count > 1
         IN  [item_counter |-> PopAt(ctr, i),
              notified |-> <<ZeroStock(ctr[i].name)>>, raised |-> TRUE]
    ELSE [item_counter |-> ctr, notified |-> <<>>, raised |-> FALSE]

\* daily_update: the first loop.  It pops the first entry whose count is 0
\* while iterating the dict; the iterator's next step then raises
\* RuntimeError (dictionary changed size during iteration).
prune(ctr) ==
    IF \E i \in 1..Len(ctr) : ctr[i].count = 0
    THEN LET i == CHOOSE j \in 1..Len(ctr) : ctr[j].count = 0 /\
                      \A k \in 1..(j - 1) : ctr[k].count # 0
         IN  [item_counter |-> PopAt(ctr, i),
              notified |-> <<ZeroStock(ctr[i].name)>>, raised |-> TRUE]
    ELSE [item_counter |-> ctr, notified |-> <<>>, raised |-> FALSE]

\* daily_update: the second loop, from cabinet position i on.  spoil_item is
\* empty when spoil_item[item.name] += ... first runs, so that statement
\* raises KeyError at the first unit at or below the threshold.  The third
\* loop, over spoil_item, is reached only with spoil_item empty and sends
\* nothing.
RECURSIVE spoil_loop(_, _, _)
spoil_loop(cab, h, i) ==
    IF i > Len(cab) THEN [heap |-> h, raised |-> FALSE]
    ELSE IF non_perishable(h[cab[i]]) THEN spoil_loop(cab, h, i + 1)
    ELSE LET h2 == [h EXCEPT ![cab[i]] = spoil(h[cab[i]])]
         IN  IF spoil_return(h[cab[i]]) <= freshness_threshold
             THEN [heap |-> h2, raised |-> TRUE]
             ELSE spoil_loop(cab, h2, i + 1)

\* Mutant of daily_update_result: the units found at or below the threshold
\* are taken out of the cabinet.
daily_update_result_discards(cab, h, ctr) ==
    LET p == prune(ctr)
    IN  IF p.raised
        THEN Outcome(cab, h, p.item_counter, p.notified, "RuntimeError")
        ELSE LET s == spoil_loop(cab, h, 1)
                 kept == SelectSeq(cab, LAMBDA r :
                            \/ non_perishable(s.heap[r])
                            \/ s.heap[r].freshness > freshness_threshold)
             IN  Outcome(kept, Collect(kept, s.heap), ctr, <<>>,
                         IF s.raised THEN "KeyError" ELSE "ok")

\* SmartFridge.daily_update
daily_update_result(cab, h, ctr) ==
    LET p == prune(ctr)
    IN  IF p.raised
        THEN Outcome(cab, h, p.item_counter, p.notified, "RuntimeError")
        ELSE LET s == spoil_loop(cab, h, 1)
             IN  Outcome(cab, s.heap, ctr, <<>>,
                         IF s.raised THEN "KeyError" ELSE "ok")

\* ------------------------------------------------------------------ display
\* display(show_freshness=False, redirect=True): the lines of the text.
display(cab, ctr) ==
    LET listed == SelectSeq(SortedNames, LAMBDA n : Has(ctr, n))
    IN  (IF ctr = <<>>
         THEN <<[line |-> "empty"]>>
         ELSE <<[line |-> "header"]>> \o
              [i \in 1..Len(listed) |->
                 [line |-> "item", item_name |-> listed[i],
                  item_count |-> Get(ctr, listed[i], 0)]])
        \o <<[line |-> "total", total_count |-> Len(cab)]>>

\* ------------------------------------------------------------------ as_dict
\* SmartFridge.as_dict: json_obj[item.name] raises KeyError for a unit whose
\* name has no entry in the counter.
as_dict(cab, h, ctr) ==
    IF ctr = <<>> THEN [raised |-> FALSE, json_obj |-> <<>>]
    ELSE IF \E i \in 1..Len(cab) : ~Has(ctr, h[cab[i]].name)
    THEN [raised |-> TRUE, json_obj |-> <<>>]
    ELSE [raised |-> FALSE,
          json_obj |->
             [n \in Keys(ctr) |->
                 LET of_name == SelectSeq(Units(cab, h),
                                          LAMBDA u : u.name = n)
                 IN  [i \in 1..Len(of_name) |-> item_as_dict(of_name[i])]]]

\* -------------------------------------------------------------------- state
VARIABLES
    cabinet,       \* self._cabinet: references to Item objects
    heap,          \* the Item objects
    item_counter,  \* self._item_counter, in insertion order
    notified,      \* what the last call passed to cron_runner.notify
    result,        \* "ok", or the exception the last call raised
    lastOp,        \* the last call and its arguments
    nops,          \* the number of calls made
    net,           \* per name: quantity put minus quantity exited, successful calls
    stocked,       \* the names a successful put has stocked in
    swept,         \* whether daily_update has been called
    item,          \* an Item object a caller holds outside any fridge
    decayed        \* the values item.spoil() has returned, in call order

vars == <<cabinet, heap, item_counter, notified, result, lastOp, nops,
          net, stocked, swept, item, decayed>>

NoOp == [op |-> "none", item_name |-> "", item_quantity |-> 0]

\* SmartFridge.__init__
Init ==
    /\ cabinet = <<>>
    /\ heap = EmptyHeap
    /\ item_counter = <<>>
    /\ notified = <<>>
    /\ result = "ok"
    /\ lastOp = NoOp
    /\ nops = 0
    /\ net = [n \in Names |-> 0]
    /\ stocked = {}
    /\ swept = FALSE
    /\ item = NoItem
    /\ decayed = <<>>

\* The fridge after a call with outcome o.
Apply(o) ==
    /\ cabinet' = o.cabinet
    /\ heap' = o.heap
    /\ item_counter' = o.item_counter
    /\ notified' = o.notified
    /\ result' = o.result
    /\ nops' = nops + 1
    /\ UNCHANGED <<item, decayed>>

\* fridge.put(item_name, item_quantity)
put(item_name, item_quantity) ==
    /\ nops < MaxOps
    /\ LET o == put_result(cabinet, heap, item_counter, item_name, item_quantity)
       IN  /\ Apply(o)
           /\ net' = IF o.result = "ok"
                     THEN [net EXCEPT ![item_name] = @ + item_quantity]
                     ELSE net
           /\ stocked' = IF o.result = "ok" THEN stocked \cup {item_name}
                         ELSE stocked
    /\ lastOp' = [op |-> "put", item_name |-> item_name,
                  item_quantity |-> item_quantity]
    /\ UNCHANGED swept

\* fridge.exit(item_name, item_quantity)
exit(item_name, item_quantity) ==
    /\ nops < MaxOps
    /\ LET o == exit_result(cabinet, heap, item_counter, item_name, item_quantity)
       IN  /\ Apply(o)
           /\ net' = IF o.result = "ok"
                     THEN [net EXCEPT ![item_name] = @ - item_quantity]
                     ELSE net
    /\ lastOp' = [op |-> "exit", item_name |-> item_name,
                  item_quantity |-> item_quantity]
    /\ UNCHANGED <<stocked, swept>>

\* cron_runner.run(fridge): fridge.daily_update()
daily_update ==
    /\ nops < MaxOps
    /\ Apply(daily_update_result(cabinet, heap, item_counter))
    /\ lastOp' = [op |-> "daily_update", item_name |-> "", item_quantity |-> 0]
    /\ swept' = TRUE
    /\ UNCHANGED <<net, stocked>>

Next ==
    \/ \E n \in Names, q \in Quantities : put(n, q)
    \/ \E n \in Names, q \in Quantities : exit(n, q)
    \/ daily_update

Spec == Init /\ [][Next]_vars

\* The same callers, passing negative quantities too.
NextSigned ==
    \/ \E n \in Names, q \in SignedQuantities : put(n, q)
    \/ \E n \in Names, q \in SignedQuantities : exit(n, q)
    \/ daily_update

SpecSigned == Init /\ [][NextSigned]_vars

\* ------------------------------------------------------------- Item callers
\* Item(name, freshness, daily_spoil) for the values the constructor accepts
\* (it raises for daily_spoil < 0 only).
Items ==
    [name : {"item"},
     freshness : (0 - MaxNegFreshness)..MaxFreshness,
     daily_spoil : 0..MaxSpoil]

\* A caller holds any Item and a fridge one put has stocked.
InitItem ==
    /\ item \in Items
    /\ decayed = <<>>
    /\ \E n \in Names, q \in 1..MaxQty :
          LET o == put_result(<<>>, EmptyHeap, <<>>, n, q)
          IN  /\ o.result = "ok"
              /\ cabinet = o.cabinet
              /\ heap = o.heap
              /\ item_counter = o.item_counter
              /\ notified = o.notified
              /\ result = o.result
              /\ lastOp = [op |-> "put", item_name |-> n, item_quantity |-> q]
              /\ net = [m \in Names |-> IF m = n THEN q ELSE 0]
              /\ stocked = {n}
    /\ nops = 0
    /\ swept = FALSE

\* item.spoil()
item_spoil ==
    /\ nops < MaxOps
    /\ item' = spoil(item)
    /\ decayed' = Append(decayed, spoil_return(item))
    /\ nops' = nops + 1
    /\ lastOp' = [op |-> "spoil", item_name |-> item.name, item_quantity |-> 0]
    /\ UNCHANGED <<cabinet, heap, item_counter, notified, result, net,
                   stocked, swept>>

NextItem ==
    \/ item_spoil
    \/ daily_update

SpecItem == InitItem /\ [][NextItem]_vars

\* ============================================================== properties
\* UnitCount, CounterSum and RemoveFirst state what the properties compare
\* the fridge with; they model no code.

\* The number of units named name in the cabinet.
UnitCount(cab, h, name) ==
    Cardinality({i \in 1..Len(cab) : h[cab[i]].name = name})

\* sum(self._item_counter.values())
RECURSIVE CounterSum(_)
CounterSum(ctr) ==
    IF ctr = <<>> THEN 0 ELSE Head(ctr).count + CounterSum(Tail(ctr))

\* units without its first q units named name, the others in their order.
RECURSIVE RemoveFirst(_, _, _)
RemoveFirst(units, name, q) ==
    IF units = <<>> \/ q <= 0 THEN units
    ELSE IF Head(units).name = name THEN RemoveFirst(Tail(units), name, q - 1)
    ELSE <<Head(units)>> \o RemoveFirst(Tail(units), name, q)

\* The counts display shows for name (one line per listed name).
Shown(cab, ctr, name) ==
    LET text == display(cab, ctr)
    IN  {text[i].item_count :
            i \in {j \in 1..Len(text) :
                      /\ text[j].line = "item"
                      /\ text[j].item_name = name}}

\* C1: in every reachable state, every name with an entry in the counter has
\* a count equal to the number of units of that name in the cabinet.
C1_CountsMatchUnits ==
    \A n \in Keys(item_counter) :
        Get(item_counter, n, 0) = UnitCount(cabinet, heap, n)

\* C2: after every successful put, exit or daily_update the sum of the
\* counts equals the number of units in the cabinet.
C2_SumEqualsLen ==
    result = "ok" => CounterSum(item_counter) = Len(cabinet)

\* C3: a successful exit(name, quantity) removes exactly the first quantity
\* units named name and keeps every other unit, in the same relative order.
C3_ExitRemovesFirst ==
    [][(lastOp'.op = "exit" /\ result' = "ok") =>
          Units(cabinet', heap') =
              RemoveFirst(Units(cabinet, heap), lastOp'.item_name,
                          lastOp'.item_quantity)]_vars

\* C4: in every reachable state the cabinet holds at most Capacity units.
C4_WithinCapacity == Len(cabinet) <= Capacity

\* C4 witness: a put on a full cabinet was refused.
C4_Witness ==
    /\ lastOp.op = "put" /\ lastOp.item_quantity > 0
    /\ result = "RuntimeError"
    /\ Len(cabinet) = Capacity

\* C5: a put or exit that raises leaves the cabinet, the items and the
\* counter as they were, and notifies nothing.
C5_FailureChangesNothing ==
    [][(lastOp'.op \in {"put", "exit"} /\ result' # "ok") =>
          /\ cabinet' = cabinet
          /\ heap' = heap
          /\ item_counter' = item_counter
          /\ notified' = <<>>]_vars

\* C5 witness: an exit of more than the stocked count was refused on a
\* fridge that holds units.
C5_Witness ==
    /\ lastOp.op = "exit" /\ result = "ValueError"
    /\ UnitCount(cabinet, heap, lastOp.item_name) > 0
    /\ Len(item_counter) > 1

\* C6: from every reachable state, put(name, q) with q within the free
\* capacity followed by exit(name, q) restores len(cabinet) and leaves the
\* counts of the other names as they were.
C6_PutThenExitRestores ==
    \A n \in Names, q \in Quantities :
        ~put_refused(cabinet, q) =>
            LET a == put_result(cabinet, heap, item_counter, n, q)
                b == exit_result(a.cabinet, a.heap, a.item_counter, n, q)
            IN  /\ a.result = "ok" /\ b.result = "ok"
                /\ Len(b.cabinet) = Len(cabinet)
                /\ \A m \in Names \ {n} :
                      /\ Has(b.item_counter, m) = Has(item_counter, m)
                      /\ Get(b.item_counter, m, 0) = Get(item_counter, m, 0)

\* C7: with no daily_update so far, display shows for every stocked name
\* the quantity put minus the quantity exited by the successful calls on
\* that name (0 for a depleted name, which stays listed), and lists no other
\* name: the count shown for a name depends on the calls on that name alone.
C7_ShownCountIsNet ==
    ~swept =>
        \A n \in Names :
            Shown(cabinet, item_counter, n) =
                IF n \in stocked THEN {net[n]} ELSE {}

\* C7 witness: before any daily_update, one name is put twice and shows the
\* sum while another name, depleted by exit, shows 0.
C7_Witness ==
    /\ ~swept
    /\ lastOp.op = "put" /\ result = "ok"
    /\ net[lastOp.item_name] > lastOp.item_quantity
    /\ lastOp.item_quantity > 0
    /\ \E m \in stocked \ {lastOp.item_name} :
          Shown(cabinet, item_counter, m) = {0}

\* C8: put(name, quantity) raises exactly when quantity exceeds the free
\* capacity; otherwise it appends quantity units of that name after the
\* existing units, adds quantity to the name's count (from 0 when the name
\* has no entry), changes no other count and notifies nothing.
C8_PutContract ==
    [][lastOp'.op = "put" =>
          LET n == lastOp'.item_name
              q == lastOp'.item_quantity
          IN  /\ (result' = "RuntimeError") <=> (q > Capacity - Len(cabinet))
              /\ result' \in {"RuntimeError", "ok"}
              /\ result' = "ok" =>
                    /\ Units(cabinet', heap') =
                           Units(cabinet, heap) \o [i \in 1..q |-> get_item(n)]
                    /\ Keys(item_counter') = Keys(item_counter) \cup {n}
                    /\ Get(item_counter', n, 0) = Get(item_counter, n, 0) + q
                    /\ \A m \in Names \ {n} :
                          Get(item_counter', m, 0) = Get(item_counter, m, 0)
                    /\ notified' = <<>>]_vars

\* C8 witness: a put that exactly fills the cabinet, after units of another
\* kind, of a name that already had a count.
C8_Witness ==
    /\ lastOp.op = "put" /\ result = "ok"
    /\ lastOp.item_quantity > 0
    /\ Len(cabinet) = Capacity
    /\ Get(item_counter, lastOp.item_name, 0) > lastOp.item_quantity
    /\ UnitNames(cabinet, heap)[1] # lastOp.item_name

\* C9: exit(name, quantity) raises KeyError exactly when name has no entry
\* in the counter, and otherwise ValueError exactly when quantity exceeds
\* the name's count; a stocked name yields KeyError only after a
\* daily_update.
C9_ExitErrors ==
    [][lastOp'.op = "exit" =>
          LET n == lastOp'.item_name
              q == lastOp'.item_quantity
          IN  /\ (result' = "KeyError") <=> ~Has(item_counter, n)
              /\ Has(item_counter, n) =>
                    ((result' = "ValueError") <=> (q > Get(item_counter, n, 0)))
              /\ result' \in {"KeyError", "ValueError", "ok"}
              /\ (result' = "KeyError" /\ n \in stocked) => swept]_vars

\* C9 witness: a positive exit of a name depleted to 0 and still listed was
\* refused with ValueError.
C9_Witness ==
    /\ lastOp.op = "exit" /\ result = "ValueError"
    /\ lastOp.item_quantity > 0
    /\ Has(item_counter, lastOp.item_name)
    /\ Get(item_counter, lastOp.item_name, 1) = 0
    /\ net[lastOp.item_name] = 0
    /\ lastOp.item_name \in stocked

\* C10: a successful exit notifies zero stock for the name exactly when the
\* resulting count is 0, and keeps the name's entry; an entry leaves the
\* counter only in a daily_update.
C10_ZeroStockOnExit ==
    [][/\ (lastOp'.op = "exit" /\ result' = "ok") =>
            LET n == lastOp'.item_name
            IN  /\ Has(item_counter', n)
                /\ (Get(item_counter', n, 1) = 0) <=>
                       (notified' = <<ZeroStock(n)>>)
                /\ notified' \in {<<>>, <<ZeroStock(n)>>}
       /\ (~(Keys(item_counter) \subseteq Keys(item_counter'))) =>
            lastOp'.op = "daily_update"]_vars

\* C10 witness: an exit took the last units of a name; its entry is still
\* in the counter at 0 and the zero-stock notification was sent.
C10_Witness ==
    /\ lastOp.op = "exit" /\ result = "ok"
    /\ lastOp.item_quantity > 0
    /\ Has(item_counter, lastOp.item_name)
    /\ Get(item_counter, lastOp.item_name, 1) = 0
    /\ notified = <<ZeroStock(lastOp.item_name)>>

\* ------------------------------------------------- daily_update and Item
\* Occurrences, ZeroStockOf and SpoiledOf read what a call notified;
\* SpoiledCount counts units.  They model no code.

\* The number of times message occurs in notes.
Occurrences(notes, message) ==
    Cardinality({i \in 1..Len(notes) : notes[i] = message})

\* The spoilage notifications for name in notes.
SpoiledOf(notes, name) ==
    SelectSeq(notes, LAMBDA m : m.message = "spoiled" /\ m.item_name = name)

\* The perishable units named name at or below the threshold.
SpoiledCount(cab, h, name) ==
    Cardinality({i \in 1..Len(cab) :
                    /\ h[cab[i]].name = name
                    /\ ~non_perishable(h[cab[i]])
                    /\ h[cab[i]].freshness <= freshness_threshold})

\* C11: daily_update notifies once and removes the entry of every name whose
\* count is 0 when it starts, however many there are, and keeps every entry
\* with another count as it is.
C11_SweepPrunesEveryZero ==
    [][lastOp'.op = "daily_update" =>
          \A i \in 1..Len(item_counter) :
              LET e == item_counter[i]
              IN  IF e.count = 0
                  THEN /\ Occurrences(notified', ZeroStock(e.name)) = 1
                       /\ ~Has(item_counter', e.name)
                  ELSE /\ Has(item_counter', e.name)
                       /\ Get(item_counter', e.name, 0) = e.count]_vars

\* C12: daily_update sends, for every name with a perishable unit whose
\* freshness after the sweep is at or below the threshold, exactly one
\* spoilage notification with the name and the number of such units, and
\* none for any other name.
C12_SpoilageNotified ==
    [][lastOp'.op = "daily_update" =>
          \A n \in Names :
              SpoiledOf(notified', n) =
                  IF SpoiledCount(cabinet', heap', n) > 0
                  THEN <<Spoiled(n, SpoiledCount(cabinet', heap', n))>>
                  ELSE <<>>]_vars

\* C13: daily_update leaves the sequence of unit names as it is, also when
\* units reach the threshold; of the items only the freshness changes, and
\* of the counter only entries with count 0 are removed.
C13_SweepKeepsUnits ==
    [][lastOp'.op = "daily_update" =>
          /\ UnitNames(cabinet', heap') = UnitNames(cabinet, heap)
          /\ \A i \in 1..Len(cabinet) :
                Units(cabinet', heap')[i].daily_spoil =
                    Units(cabinet, heap)[i].daily_spoil
          /\ \A j \in 1..Len(item_counter') :
                \E i \in 1..Len(item_counter) :
                    item_counter[i] = item_counter'[j]
          /\ \A i \in 1..Len(item_counter) :
                item_counter[i].count # 0 =>
                    \E j \in 1..Len(item_counter') :
                        item_counter'[j] = item_counter[i]]_vars

\* C13 witness: a sweep brought a unit to the threshold, and the cabinet
\* still holds all its units, that one included.
C13_Witness ==
    /\ lastOp.op = "daily_update" /\ result = "KeyError"
    /\ Len(cabinet) >= 2
    /\ \E n \in Names : SpoiledCount(cabinet, heap, n) > 0
    /\ \E i \in 1..Len(cabinet) : non_perishable(heap[cabinet[i]])

\* C14: for a perishable item of any initial freshness, spoil() sets the
\* freshness to max(0, freshness - daily_spoil) and returns it; the values
\* the calls return never rise, are never below 0, stay 0 after a 0, and do
\* not exceed an initial freshness that is not negative.
C14_SpoilDecays ==
    [][(lastOp'.op = "spoil" /\ ~non_perishable(item)) =>
          LET f == item.freshness
              r == item.daily_spoil
              g == item'.freshness
          IN  /\ g = IF f - r > 0 THEN f - r ELSE 0
              /\ decayed' = Append(decayed, g)
              /\ g >= 0
              /\ decayed # <<>> => g <= decayed[Len(decayed)]
              /\ f >= 0 => g <= f
              /\ f = 0 => g = 0
              /\ item'.name = item.name
              /\ item'.daily_spoil = r]_vars

\* C14 witness: a perishable item decayed to a positive value, then to 0,
\* and stayed 0 at the next call.
C14_Witness ==
    /\ ~non_perishable(item)
    /\ Len(decayed) >= 3
    /\ decayed[1] > 0
    /\ decayed[Len(decayed) - 1] = 0
    /\ decayed[Len(decayed)] = 0
    /\ item.freshness = 0

\* C15: for a non-perishable item, whatever freshness it stores, spoil()
\* returns -1 and changes nothing, and the reported freshness is -1 before
\* and after every spoil() and every daily_update, for the item a caller
\* holds and for the non-perishable units of a fridge.
C15_NonPerishableFixed ==
    [][/\ (lastOp'.op = "spoil" /\ non_perishable(item)) =>
            /\ item' = item
            /\ decayed' = Append(decayed, -1)
       /\ non_perishable(item) =>
            /\ freshness_of(item) = -1
            /\ freshness_of(item') = -1
       /\ \A i \in 1..Len(cabinet) :
            non_perishable(Units(cabinet, heap)[i]) =>
                /\ Units(cabinet', heap')[i] = Units(cabinet, heap)[i]
                /\ freshness_of(Units(cabinet, heap)[i]) = -1
                /\ freshness_of(Units(cabinet', heap')[i]) = -1]_vars

\* C15 witness: a non-perishable item that stores a positive freshness went
\* through two spoil() calls, and a fridge holding non-perishable units
\* through a daily_update.
C15_Witness ==
    /\ non_perishable(item) /\ item.freshness > 1
    /\ Len(decayed) >= 2
    /\ swept
    /\ \E i \in 1..Len(cabinet) : non_perishable(heap[cabinet[i]])

\* C16: a daily_update that completes has decayed every perishable unit
\* exactly once, to max(0, freshness - daily_spoil), however many units one
\* put stocked together.
C16_EachUnitDecaysOnce ==
    [][(lastOp'.op = "daily_update" /\ result' = "ok") =>
          \A i \in 1..Len(cabinet) :
              Units(cabinet', heap')[i] = spoil(Units(cabinet, heap)[i])]_vars

\* C17: daily_update completes without raising from every reachable state.
C17_SweepNeverRaises ==
    lastOp.op = "daily_update" => result = "ok"

\* C18: the exit that takes the last units of a name notifies zero stock
\* once; the daily_update that follows it notifies zero stock for that name
\* once more and prunes its entry; and a daily_update notifies nothing for a
\* name that has no entry.
C18_DepletionNotifiedTwice ==
    [][lastOp'.op = "daily_update" =>
          /\ (/\ lastOp.op = "exit" /\ result = "ok"
              /\ lastOp.item_quantity > 0
              /\ Get(item_counter, lastOp.item_name, 1) = 0) =>
                /\ notified = <<ZeroStock(lastOp.item_name)>>
                /\ Occurrences(notified', ZeroStock(lastOp.item_name)) = 1
                /\ ~Has(item_counter', lastOp.item_name)
          /\ \A n \in Names :
                ~Has(item_counter, n) =>
                    Occurrences(notified', ZeroStock(n)) = 0]_vars

\* C19: whatever integer quantities put and exit are called with, negative
\* ones included, every count is >= 0 in every reachable state.
C19_CountsNeverNegative ==
    \A i \in 1..Len(item_counter) : item_counter[i].count >= 0

\* C20: with quantities >= 0, every unit in the cabinet has a name that has
\* an entry in the counter, so as_dict does not raise.
C20_UnitsAreListed ==
    /\ \A i \in 1..Len(cabinet) : Has(item_counter, heap[cabinet[i]].name)
    /\ ~as_dict(cabinet, heap, item_counter).raised

\* C20 witness: a daily_update pruned an entry of a fridge that holds units,
\* and as_dict lists a unit.
C20_Witness ==
    /\ lastOp.op = "daily_update" /\ result = "RuntimeError"
    /\ Len(cabinet) > 0
    /\ Len(item_counter) > 0
    /\ \E n \in Keys(item_counter) :
          Len(as_dict(cabinet, heap, item_counter).json_obj[n]) > 0

====
